---- MODULE Spec2Model ----
(***************************************************************************)
(* The ShaderCanvas component (src/unnamed/part_000): its refs, the setup  *)
(* effect and its cleanup, the animation callbacks it hands to             *)
(* requestAnimationFrame, and the imperative controls.                     *)
(*                                                                         *)
(* Time is kept in milliseconds throughout (the code divides the           *)
(* timestamp difference by 1000 and keeps seconds; the scale is the only   *)
(* difference).  The per-frame callback onFrame is host code: a tick is    *)
(* split at the call of onFrame, so that the controls the callback calls   *)
(* run between the tick's two halves, as they do in the code.              *)
(***************************************************************************)
EXTENDS Integers, Sequences, FiniteSets, TLC

\* ---------------------------------------------------------------- bounds
MaxNow == 2     \* animation frames the display delivers
MaxRaf == 4     \* highest requestAnimationFrame handle in use
MaxGen == 2     \* drawing surfaces some ref or closure holds at a time
MaxCalls == 2   \* control calls one onFrame callback makes

\* ------------------------------------------------------- values of the code
Null == 0            \* null in rendererRef, materialRef, rafIdRef
NoTimestamp == -1    \* null in lastTimestampRef (timestamps are >= 0)
Undefined == -99     \* JavaScript undefined, as getUniform returns it
DefaultWidth == 300
DefaultHeight == 150

Shaders == {"fragA", "fragB"}
InitialTimes == {2}
Speeds == {-1, 0, 1}
SeekTimes == {5}
UpdateValues == {9}
CustomUniformSets == {[u_custom |-> 7]}
\* names a caller passes to updateUniform / getUniform
UniformNames == {"u_time", "u_custom", "u_missing", "toString"}
\* members every plain object inherits from Object.prototype
ProtoNames == {"toString"}
ContainerSizes == {<<4, 2>>}
\* size (29): a SizeMode; a field a mode does not have, or an optional
\* field left out, is 0 (falsy, like undefined)
SizeOf(mode, w, h, ratio, maxW, maxH) ==
    [mode |-> mode, width |-> w, height |-> h, aspectRatio |-> ratio,
     maxWidth |-> maxW, maxHeight |-> maxH]
FillSize == SizeOf("fill", 0, 0, 0, 0, 0)
\* pixelRatio (30): 'device', 'capped' or a number
PolicyOf(kind, n) == [kind |-> kind, value |-> n]
CappedPolicy == PolicyOf("capped", 0)
\* the display: devicePixelRatio and the window's inner size
DisplayOf(dpr, w, h) == [dpr |-> dpr, inner |-> <<w, h>>]
Displays == {DisplayOf(1, 8, 6)}
\* a pointer event: clientX, clientY, and the left and top of the container's
\* bounding box when it arrives
PointerEvents == {<<1, 1, 0, 0>>}

PropsSet ==
    [fragmentShader : Shaders,
     autoPlay : BOOLEAN,
     initialTime : InitialTimes,
     enableTimeUniform : BOOLEAN,
     enableResolutionUniform : {TRUE},
     enableMouseUniform : {TRUE},
     customUniforms : CustomUniformSets,
     size : {FillSize},
     pixelRatio : {CappedPolicy}]

VARIABLES
    props,              \* the props of the last render of the component
    lifecycle,          \* "Uninitialized", "Active", "Disposed"
    rendererRef,        \* rendererRef / sceneRef / cameraRef / meshRef
    materialRef,
    surfaces,           \* per surface: the material's uniforms, the renderer's size
    protoValue,         \* the value property of each inherited member
    sizeRef,
    container,          \* clientWidth, clientHeight of the container
    display,            \* window.devicePixelRatio, window.innerWidth / innerHeight
    actualPixelRatio,   \* the memoized pixel ratio (62-67)
    domChildren,        \* canvases attached to the container
    mouseListeners,     \* setup closures with a mousemove listener
    resizeListeners,    \* setup closures with a window resize listener
    mouseRef,
    mouseNormalizedRef,
    rafIdRef,
    timeRef,
    isPlayingRef,
    lastTimestampRef,
    playbackSpeedRef,
    pending,            \* the display's map of animation-frame callbacks
    batch,              \* handles the current frame still has to run
    now,                \* timestamp of the current frame
    pc,                 \* "idle", or "inFrame" while onFrame is running
    cur,                \* the tick that is running onFrame
    calls,              \* control calls made by the running onFrame
    trace,              \* what the last handler let the outside see, in order
    hist                \* "paused": pause() returned and play() was not called
                        \* since; "played": play() started the loop and no
                        \* tick ran since; "none" otherwise

vars == <<props, lifecycle, rendererRef, materialRef, surfaces, protoValue,
          sizeRef, container, display, actualPixelRatio, domChildren, mouseListeners, resizeListeners,
          mouseRef, mouseNormalizedRef, rafIdRef, timeRef, isPlayingRef,
          lastTimestampRef, playbackSpeedRef, pending, batch, now, pc, cur,
          calls, trace, hist>>

refVars == <<rendererRef, materialRef, sizeRef, domChildren, mouseListeners,
             resizeListeners>>
pointerVars == <<mouseRef, mouseNormalizedRef>>
hostVars == <<container, display, actualPixelRatio>>

\* ------------------------------------------------------------- helpers
Ev(t, a, b) == [type |-> t, a |-> a, b |-> b]

NoTick == [kind |-> "none", gen |-> Null, time |-> 0, delta |-> 0]
NoSurface == [uniforms |-> <<>>, size |-> <<0, 0>>]

\* the trace of a handler holds what it let the outside see: calls of onFrame
\* and onResize, renders, requests of an animation frame.  A control called
\* by the host starts a trace; called from inside onFrame it continues the
\* trace of the running tick, after the marks it leaves there
Emit(marks, evs) == trace' = IF pc = "inFrame" THEN trace \o marks \o evs ELSE evs

\* material.uniforms[name]: own entries first, then Object.prototype
HasOwn(u, name) == name \in DOMAIN u
Truthy(u, name) == HasOwn(u, name) \/ name \in ProtoNames
\* material.uniforms[name]?.value
ValueOf(u, name) ==
    IF HasOwn(u, name) THEN u[name]
    ELSE IF name \in ProtoNames THEN protoValue[name]
    ELSE Undefined

\* fragment sources the GPU driver does not compile
BrokenShaders == {"fragB"}
\* FALLBACK_FRAGMENT_SHADER (constants, 17-23): exported, used nowhere
FALLBACK_FRAGMENT_SHADER == "fallback"
\* lines 112-117: the fragment source the material of a setup under props p
\* is built with
MaterialShader(p) == p.fragmentShader

\* a construction that leaves a custom entry out of the registry
BuildUniformsBuiltinsOnly(p) ==
    (IF p.enableTimeUniform THEN [u_time |-> 0] ELSE <<>>)
    @@ (IF p.enableResolutionUniform THEN [u_resolution |-> <<1, 1>>] ELSE <<>>)
    @@ (IF p.enableMouseUniform
        THEN [u_mouse |-> <<0, 0>>, u_mouseNormalized |-> <<<<0, 1>>, <<0, 1>>>>]
        ELSE <<>>)

\* lines 98-109: built-ins per flag, then the custom entries over them
BuildUniforms(p) ==
    LET builtin ==
            (IF p.enableTimeUniform THEN [u_time |-> 0] ELSE <<>>)
         @@ (IF p.enableResolutionUniform THEN [u_resolution |-> <<1, 1>>] ELSE <<>>)
         @@ (IF p.enableMouseUniform
             THEN [u_mouse |-> <<0, 0>>, u_mouseNormalized |-> <<<<0, 1>>, <<0, 1>>>>]
             ELSE <<>>)
    IN  p.customUniforms @@ builtin

Min(a, b) == IF a <= b THEN a ELSE b

\* the body of the actualPixelRatio memo (63-66), in a browser
ResolvePixelRatio(policy, dpr) ==
    IF policy.kind = "device" THEN dpr
    ELSE IF policy.kind = "capped" THEN Min(dpr, 2)
    ELSE policy.value

\* useMemo(..., [pixelRatio]) (62-67) at a render with props p: computed
\* anew only when the pixelRatio prop changed
Memo(p) ==
    IF p.pixelRatio = props.pixelRatio THEN actualPixelRatio
    ELSE ResolvePixelRatio(p.pixelRatio, display.dpr)

\* an updateSize that takes the container's box as it is, without defaults
LogicalSizeRaw(p, c) == c

\* lines 126-137 of updateSize: the logical size
LogicalSize(p, c) ==
    IF p.size.mode = "viewport" THEN display.inner
    ELSE IF p.size.mode = "fixed" THEN <<p.size.width, p.size.height>>
    ELSE <<IF c[1] # 0 THEN c[1] ELSE DefaultWidth,
           IF c[2] # 0 THEN c[2] ELSE DefaultHeight>>

\* line 139: the device size under the pixel ratio r of the closure
DeviceSize(sz, r) == <<sz[1] * r, sz[2] * r>>

\* an updateSize that leaves the resolution uniform as it was
SizedUniformsKept(u, sz, r) == u

\* lines 138-142 of updateSize on the uniforms of the closure's material
SizedUniforms(u, sz, r) ==
    IF HasOwn(u, "u_resolution") THEN [u EXCEPT !["u_resolution"] = DeviceSize(sz, r)] ELSE u

PendingIds == {c.id : c \in pending}
Runnable == {c \in pending : c.id \in batch}
\* cancelAnimationFrame(id)
Cancel(q, id) == {c \in q : c.id # id}
\* the handle requestAnimationFrame returns next: handles only ever grow, so
\* it is above every handle the program or the display still holds
SetMax(S) == IF S = {} THEN 0 ELSE CHOOSE m \in S : \A x \in S : x <= m
nextId == 1 + SetMax(PendingIds \cup batch \cup {rafIdRef})

\* the surfaces something still refers to: the refs, the closures of the
\* pending callbacks, the running tick
Live(ref, q, c) == {ref, c.gen} \cup {cb.gen : cb \in q}
\* a surface nothing refers to any more is gone
Collect(s, live) == [g \in DOMAIN s |-> IF g \in live THEN s[g] ELSE NoSurface]
\* new THREE.WebGLRenderer (75): an object no one refers to yet
Fresh(q) == {g \in 1..MaxGen : g \notin Live(Null, q, NoTick)}
NewSurface(q) == CHOOSE g \in Fresh(q) : \A h \in Fresh(q) : g <= h

Uniforms(g) == surfaces[g].uniforms

\* the time uniform of the material the mesh of surface g is drawn with
TimeUniformOf(g) ==
    IF g = Null THEN Undefined
    ELSE IF HasOwn(Uniforms(g), "u_time") THEN Uniforms(g)["u_time"] ELSE Undefined

\* getUniform (300-303)
GetUniform(name) ==
    IF materialRef = Null THEN Undefined ELSE ValueOf(Uniforms(materialRef), name)

\* ------------------------------------------------------------ initial state
\* P, D, C: the props of the first render, the display and the container's box
InitWith(P, D, C) ==
    /\ props \in P
    /\ display \in D
    /\ container \in C
    /\ actualPixelRatio = ResolvePixelRatio(props.pixelRatio, display.dpr)
    /\ lifecycle = "Uninitialized"
    /\ rendererRef = Null
    /\ materialRef = Null
    /\ surfaces = [g \in 1..MaxGen |-> NoSurface]
    /\ protoValue = [n \in ProtoNames |-> Undefined]
    /\ sizeRef = <<1, 1>>
    /\ domChildren = {}
    /\ mouseListeners = {}
    /\ resizeListeners = {}
    /\ mouseRef = <<0, 0>>
    /\ mouseNormalizedRef = <<<<0, 1>>, <<0, 1>>>>
    /\ rafIdRef = Null
    /\ timeRef = props.initialTime
    /\ isPlayingRef = props.autoPlay
    /\ lastTimestampRef = NoTimestamp
    /\ playbackSpeedRef = 1
    /\ pending = {}
    /\ batch = {}
    /\ now = 0
    /\ pc = "idle"
    /\ cur = NoTick
    /\ calls = 0
    /\ trace = <<>>
    /\ hist = "none"

Init == InitWith(PropsSet, Displays, ContainerSizes)

\* ------------------------------------------------- the setup effect (70-199)
\* what the effect does once the surface is built (176-182): start the loop
\* or draw one frame
StartsLoop(p) == p.autoPlay

\* q, mL, rL, dom: the callback map, the listeners and the container's
\* children as the cleanup of the previous run left them
Setup(p, q, mL, rL, dom) ==
    LET g == NewSurface(q)
        sz == LogicalSize(p, container)
        r == Memo(p)
        u == SizedUniforms(BuildUniforms(p), sz, r)
        timeU == IF HasOwn(u, "u_time") THEN u["u_time"] ELSE Undefined
    IN  /\ Fresh(q) # {}
        /\ rendererRef' = g
        /\ materialRef' = g
        /\ domChildren' = dom \cup {g}
        /\ surfaces' = [Collect(surfaces, Live(Null, q, NoTick))
                           EXCEPT ![g] = [uniforms |-> u, size |-> sz]]
        /\ sizeRef' = DeviceSize(sz, r)
        /\ IF StartsLoop(p)
           THEN /\ nextId <= MaxRaf
                /\ isPlayingRef' = TRUE
                /\ rafIdRef' = nextId
                /\ pending' = q \cup {[id |-> nextId, kind |-> "setup", gen |-> g]}
                /\ trace' = <<Ev("create", g, 0), Ev("onResize", sz[1], sz[2]),
                              Ev("raf", 0, 0)>>
           ELSE /\ pending' = q
                /\ trace' = <<Ev("create", g, 0), Ev("onResize", sz[1], sz[2]),
                              Ev("render", g, timeU)>>
                /\ UNCHANGED <<isPlayingRef, rafIdRef>>
        /\ mouseListeners' = IF p.enableMouseUniform THEN mL \cup {g} ELSE mL
        /\ resizeListeners' = rL \cup {g}
        /\ lifecycle' = "Active"

\* what the effect lets the outside see when new THREE.WebGLRenderer (75)
\* throws because no WebGL context can be had: the effect has no try/catch
\* and the component takes no onError prop (25-44), so the exception leaves
\* the effect
SetupFailure == <<Ev("throw", 0, 0)>>

\* first commit of the component on a host without a rendering backend: the
\* effect stops at line 75, before any ref is set or element attached
MountFails ==
    /\ pc = "idle"
    /\ lifecycle = "Uninitialized"
    /\ trace' = SetupFailure
    /\ UNCHANGED <<props, lifecycle, refVars, surfaces, protoValue, hostVars,
                   pointerVars, rafIdRef, timeRef, isPlayingRef, lastTimestampRef,
                   playbackSpeedRef, pending, batch, now, pc, cur, calls, hist>>

\* ---------------------------------------- the cleanup of the effect (202-224)
\* of the run that created surface g under props p
CleanupPending == IF rafIdRef # Null THEN Cancel(pending, rafIdRef) ELSE pending
CleanupBatch == batch \ {rafIdRef}
CleanupMouse(p, g) == IF p.enableMouseUniform THEN mouseListeners \ {g} ELSE mouseListeners
CleanupResize(g) == resizeListeners \ {g}
CleanupDom(g) == domChildren \ {g}

\* first commit of the component: the effect runs
Mount ==
    /\ pc = "idle"
    /\ lifecycle = "Uninitialized"
    /\ Setup(props, pending, mouseListeners, resizeListeners, domChildren)
    /\ UNCHANGED <<props, protoValue, hostVars, pointerVars, timeRef,
                   lastTimestampRef, playbackSpeedRef, batch, now, pc, cur, calls,
                   hist>>

\* the dependency list of the effect (225)
Deps(p) == <<p.fragmentShader, Memo(p), p.size, p.enableTimeUniform,
             p.enableResolutionUniform, p.enableMouseUniform, p.autoPlay>>

\* the effect runs again under props p: cleanup of the old run, then setup
Restart(p) ==
    /\ pc = "idle"
    /\ lifecycle = "Active"
    /\ props' = p
    /\ actualPixelRatio' = Memo(p)
    /\ Setup(p, CleanupPending, CleanupMouse(props, rendererRef),
             CleanupResize(rendererRef), CleanupDom(rendererRef))
    /\ batch' = CleanupBatch
    /\ UNCHANGED <<protoValue, container, display, pointerVars, timeRef,
                   lastTimestampRef, playbackSpeedRef, now, pc, cur, calls, hist>>

\* a render with a changed dependency and nothing else changed
Rebuild(p) ==
    /\ Deps(p) # Deps(props)
    /\ p.initialTime = props.initialTime
    /\ p.customUniforms = props.customUniforms
    /\ Restart(p)

\* unmount: the cleanup alone
Unmount ==
    /\ pc = "idle"
    /\ lifecycle = "Active"
    /\ lifecycle' = "Disposed"
    /\ pending' = CleanupPending
    /\ batch' = CleanupBatch
    /\ mouseListeners' = CleanupMouse(props, rendererRef)
    /\ resizeListeners' = CleanupResize(rendererRef)
    /\ domChildren' = CleanupDom(rendererRef)
    /\ rendererRef' = Null
    /\ materialRef' = Null
    /\ surfaces' = Collect(surfaces, Live(Null, CleanupPending, NoTick))
    /\ trace' = <<>>
    /\ UNCHANGED <<props, protoValue, sizeRef, hostVars, pointerVars, rafIdRef,
                   timeRef, isPlayingRef, lastTimestampRef, playbackSpeedRef, now,
                   pc, cur, calls, hist>>

\* the component renders again with props p while the effect is set up.
\* sameSize: the caller passed the size object of the last render; the
\* default of line 29 is a new object at every render.  The effect runs
\* again when an entry of its dependency list (225) changed
Render(p, sameSize) ==
    /\ pc = "idle"
    /\ lifecycle = "Active"
    /\ p # props \/ ~sameSize
    /\ IF Deps(p) # Deps(props) \/ ~sameSize
       THEN Restart(p)
       ELSE /\ props' = p
            /\ trace' = <<>>
            /\ UNCHANGED <<lifecycle, refVars, surfaces, protoValue, hostVars,
                           pointerVars, rafIdRef, timeRef, isPlayingRef,
                           lastTimestampRef, playbackSpeedRef, pending, batch, now,
                           pc, cur, calls, hist>>

\* ------------------------------------------------------ the display's frames
\* a frame begins: its timestamp, and the callbacks it is going to run
BeginFrame ==
    /\ pc = "idle"
    /\ Runnable = {}
    /\ now < MaxNow
    /\ now' = now + 1
    /\ batch' = PendingIds
    /\ trace' = <<>>
    /\ UNCHANGED <<props, lifecycle, refVars, surfaces, protoValue, hostVars,
                   pointerVars, rafIdRef, timeRef, isPlayingRef, lastTimestampRef,
                   playbackSpeedRef, pending, pc, cur, calls, hist>>

\* the callback the frame runs next: the oldest handle of its batch
NextCallback == CHOOSE c \in Runnable : \A d \in Runnable : c.id <= d.id

\* a delta taken the wrong way round, from the tick back to the last one
DeltaTimeReversed(ts) ==
    LET last == IF lastTimestampRef = NoTimestamp THEN ts ELSE lastTimestampRef
    IN  (last - ts) * playbackSpeedRef

\* lines 151-158 and 243-250: the delta of a tick at timestamp ts
DeltaTime(ts) ==
    LET last == IF lastTimestampRef = NoTimestamp THEN ts ELSE lastTimestampRef
    IN  (ts - last) * playbackSpeedRef

\* the surface a callback works on: the one its closure holds (setup effect,
\* 148) or the one the refs hold when it starts (play, 236-241)
TargetOf(c) == IF c.kind = "setup" THEN c.gen ELSE rendererRef

\* lines 149 and 234-241: the early returns of a callback
Returns(c) == ~isPlayingRef \/ (c.kind = "play" /\ (materialRef = Null \/ rendererRef = Null))

\* lines 160-169 and 252-254: the uniforms a tick writes
WriteUniforms(c, u, t) ==
    LET u1 == IF HasOwn(u, "u_time") THEN [u EXCEPT !["u_time"] = t] ELSE u
        u2 == IF c.kind = "setup" /\ HasOwn(u1, "u_mouse")
              THEN [u1 EXCEPT !["u_mouse"] = mouseRef] ELSE u1
        u3 == IF c.kind = "setup" /\ HasOwn(u2, "u_mouseNormalized")
              THEN [u2 EXCEPT !["u_mouseNormalized"] = mouseNormalizedRef] ELSE u2
    IN  u3

\* a uniform write placed before the clock update: it writes the old clock
TickUniformsStale(c, u, t) == WriteUniforms(c, u, timeRef)

\* the uniform write of a tick comes after its clock update (158, 162; 250, 253)
TickUniforms(c, u, t) == WriteUniforms(c, u, t)

\* a callback of the frame runs, up to its call of onFrame (148-171, 233-256)
TickBegin ==
    /\ pc = "idle"
    /\ Runnable # {}
    /\ LET c == NextCallback
           g == TargetOf(c)
           d == DeltaTime(now)
           t == timeRef + d
       IN  /\ pending' = pending \ {c}
           /\ batch' = batch \ {c.id}
           /\ IF Returns(c)
              THEN /\ trace' = <<>>
                   /\ surfaces' = Collect(surfaces, Live(materialRef, pending \ {c}, NoTick))
                   /\ UNCHANGED <<timeRef, lastTimestampRef, pc, cur, hist>>
              ELSE /\ lastTimestampRef' = now
                   /\ timeRef' = t
                   /\ surfaces' = [surfaces EXCEPT ![g].uniforms = TickUniforms(c, @, t)]
                   /\ pc' = "inFrame"
                   /\ cur' = [kind |-> c.kind, gen |-> g, time |-> t, delta |-> d]
                   /\ hist' = IF hist = "played" THEN "none" ELSE hist
                   /\ trace' = <<Ev("clock", t, d)>>
                         \o (IF HasOwn(Uniforms(g), "u_time")
                             THEN <<Ev("uniform", g,
                                       TickUniforms(c, Uniforms(g), t)["u_time"])>>
                             ELSE <<>>)
                         \o <<Ev("onFrame", t, d)>>
    /\ calls' = 0
    /\ UNCHANGED <<props, lifecycle, refVars, protoValue, hostVars, pointerVars,
                   rafIdRef, isPlayingRef, playbackSpeedRef, now>>

\* what a tick does once onFrame has returned (172-173, 257-258)
TickTail(g) == <<Ev("render", g, TimeUniformOf(g)), Ev("raf", 0, 0)>>

\* onFrame has returned: the render and the next request
TickEnd ==
    /\ pc = "inFrame"
    /\ nextId <= MaxRaf
    /\ pc' = "idle"
    /\ cur' = NoTick
    /\ calls' = 0
    /\ rafIdRef' = nextId
    /\ pending' = pending \cup
          {[id |-> nextId, kind |-> cur.kind,
            gen |-> IF cur.kind = "setup" THEN cur.gen ELSE Null]}
    /\ trace' = TickTail(cur.gen)
    /\ UNCHANGED <<props, lifecycle, refVars, surfaces, protoValue, hostVars,
                   pointerVars, timeRef, isPlayingRef, lastTimestampRef,
                   playbackSpeedRef, batch, now, hist>>

\* --------------------------------------------------- the controls (228-307)
\* a control is called by the host between handlers, or by onFrame
Callable == pc = "idle" \/ (pc = "inFrame" /\ calls < MaxCalls)
Counted == calls' = IF pc = "inFrame" THEN calls + 1 ELSE calls

\* a play that keeps the timestamp of the last tick before the pause
PlayTimestampKept == lastTimestampRef

\* line 231: what play leaves in lastTimestampRef
PlayTimestamp == NoTimestamp

\* play (228-262)
Play ==
    /\ Callable
    /\ Counted
    /\ IF isPlayingRef
       THEN /\ Emit(<<>>, <<>>)
            /\ hist' = IF hist = "paused" THEN "none" ELSE hist
            /\ UNCHANGED <<isPlayingRef, lastTimestampRef, rafIdRef, pending>>
       ELSE /\ nextId <= MaxRaf
            /\ isPlayingRef' = TRUE
            /\ lastTimestampRef' = PlayTimestamp
            /\ rafIdRef' = nextId
            /\ pending' = pending \cup {[id |-> nextId, kind |-> "play", gen |-> Null]}
            /\ Emit(<<>>, <<Ev("raf", 0, 0)>>)
            /\ hist' = "played"
    /\ UNCHANGED <<props, lifecycle, refVars, surfaces, protoValue, hostVars,
                   pointerVars, timeRef, playbackSpeedRef, batch, now, pc, cur>>

\* pause (264-270)
Pause ==
    /\ Callable
    /\ Counted
    /\ isPlayingRef' = FALSE
    /\ IF rafIdRef # Null
       THEN /\ pending' = Cancel(pending, rafIdRef)
            /\ batch' = batch \ {rafIdRef}
            /\ rafIdRef' = Null
       ELSE UNCHANGED <<pending, batch, rafIdRef>>
    /\ surfaces' = Collect(surfaces, Live(materialRef, pending', cur))
    /\ Emit(<<>>, <<>>)
    /\ hist' = "paused"
    /\ UNCHANGED <<props, lifecycle, refVars, protoValue, hostVars, pointerVars,
                   timeRef, lastTimestampRef, playbackSpeedRef, now, pc, cur>>

\* a seek that moves the clock and leaves the time uniform to the next tick
WithTimeDeferred(t) == surfaces

\* material?.uniforms.u_time written by reset and setTime (275-278, 283-286)
WithTime(t) ==
    IF materialRef # Null /\ HasOwn(Uniforms(materialRef), "u_time")
    THEN [surfaces EXCEPT ![materialRef].uniforms["u_time"] = t]
    ELSE surfaces

\* a reset that keeps the timestamp of the last tick
ResetTimestampKept ==
    /\ Callable
    /\ Counted
    /\ timeRef' = props.initialTime
    /\ surfaces' = WithTime(props.initialTime)
    /\ Emit(<<Ev("reset", 0, 0)>>, <<>>)
    /\ UNCHANGED <<props, lifecycle, refVars, protoValue, hostVars, pointerVars,
                   rafIdRef, isPlayingRef, lastTimestampRef, playbackSpeedRef, pending,
                   batch, now, pc, cur, hist>>

\* what reset lets the outside see (272-279): nothing
ResetEffects == <<>>

\* reset (272-279)
Reset ==
    /\ Callable
    /\ Counted
    /\ timeRef' = props.initialTime
    /\ lastTimestampRef' = NoTimestamp
    /\ surfaces' = WithTime(props.initialTime)
    /\ Emit(<<Ev("reset", 0, 0)>>, ResetEffects)
    /\ UNCHANGED <<props, lifecycle, refVars, protoValue, hostVars, pointerVars,
                   rafIdRef, isPlayingRef, playbackSpeedRef, pending, batch, now, pc,
                   cur, hist>>

\* what setTime lets the outside see (281-287): nothing
SetTimeEffects(t) == <<>>

\* setTime (281-287)
SetTime(t) ==
    /\ Callable
    /\ Counted
    /\ timeRef' = t
    /\ surfaces' = WithTime(t)
    /\ Emit(<<Ev("setTime", t, 0)>>, SetTimeEffects(t))
    /\ UNCHANGED <<props, lifecycle, refVars, protoValue, hostVars, pointerVars,
                   rafIdRef, isPlayingRef, lastTimestampRef, playbackSpeedRef, pending,
                   batch, now, pc, cur, hist>>

\* a setPlaybackSpeed that also restarts the measuring of the delta
SetPlaybackSpeedRetimed(s) ==
    /\ Callable
    /\ Counted
    /\ playbackSpeedRef' = s
    /\ lastTimestampRef' = NoTimestamp
    /\ Emit(<<>>, <<>>)
    /\ UNCHANGED <<props, lifecycle, refVars, surfaces, protoValue, hostVars,
                   pointerVars, rafIdRef, timeRef, isPlayingRef, pending, batch, now,
                   pc, cur, hist>>

\* setPlaybackSpeed (289-291)
SetPlaybackSpeed(s) ==
    /\ Callable
    /\ Counted
    /\ playbackSpeedRef' = s
    /\ Emit(<<>>, <<>>)
    /\ UNCHANGED <<props, lifecycle, refVars, surfaces, protoValue, hostVars,
                   pointerVars, rafIdRef, timeRef, isPlayingRef, lastTimestampRef,
                   pending, batch, now, pc, cur, hist>>

\* updateUniform (293-298): the entry material.uniforms[name] is looked up as
\* JavaScript looks a property up, and its value property assigned
UpdateUniform(name, v) ==
    /\ Callable
    /\ Counted
    /\ IF materialRef # Null /\ Truthy(Uniforms(materialRef), name)
       THEN IF HasOwn(Uniforms(materialRef), name)
            THEN /\ surfaces' = [surfaces EXCEPT ![materialRef].uniforms[name] = v]
                 /\ UNCHANGED protoValue
            ELSE /\ protoValue' = [protoValue EXCEPT ![name] = v]
                 /\ UNCHANGED surfaces
       ELSE UNCHANGED <<surfaces, protoValue>>
    /\ Emit(IF name = "u_time" THEN <<Ev("updateUniform", v, 0)>> ELSE <<>>, <<>>)
    /\ UNCHANGED <<props, lifecycle, refVars, hostVars, pointerVars, rafIdRef,
                   timeRef, isPlayingRef, lastTimestampRef, playbackSpeedRef, pending,
                   batch, now, pc, cur, hist>>

\* what captureFrame returns: '' or the data URL of the canvas of a
\* renderer, kept as <<renderer, 1>>
EmptyString == <<Null, 0>>
DataUrl(g) == <<g, 1>>

\* a captureFrame without the ?. and the ?? of line 306
CaptureFrameUnguarded == DataUrl(rendererRef)

\* captureFrame (305-307)
CaptureFrame == IF rendererRef # Null THEN DataUrl(rendererRef) ELSE EmptyString

\* a call of captureFrame, by the host or from inside onFrame
Capture ==
    /\ Callable
    /\ Counted
    /\ Emit(<<>>, <<Ev("capture", CaptureFrame[1], CaptureFrame[2])>>)
    /\ UNCHANGED <<props, lifecycle, refVars, surfaces, protoValue, hostVars,
                   pointerVars, rafIdRef, timeRef, isPlayingRef, lastTimestampRef,
                   playbackSpeedRef, pending, batch, now, pc, cur, hist>>

\* ------------------------------------------------- input events (184-199)
\* handleResize of the setup closure g: updateSize (126-144, 194)
WindowResize(g) ==
    /\ pc = "idle"
    /\ g \in resizeListeners
    /\ LET sz == LogicalSize(props, container)
       IN  /\ surfaces' = [surfaces EXCEPT ![g].size = sz,
                                           ![g].uniforms = SizedUniforms(@, sz, actualPixelRatio)]
           /\ sizeRef' = DeviceSize(sz, actualPixelRatio)
           /\ trace' = <<Ev("onResize", sz[1], sz[2])>>
    /\ UNCHANGED <<props, lifecycle, rendererRef, materialRef, domChildren,
                   mouseListeners, resizeListeners, protoValue, hostVars, pointerVars,
                   rafIdRef, timeRef, isPlayingRef, lastTimestampRef, playbackSpeedRef,
                   pending, batch, now, pc, cur, calls, hist>>

\* lines 186-190 for a point at client position <<e[1], e[2]>> while the
\* container's bounding box has its corner at <<e[3], e[4]>> and the extent
\* c: the raw and the normalized position.  A normalized coordinate is kept
\* as the pair <<numerator, denominator>>: x / width is <<x, w>> and
\* 1 - y / height, which is (h - y) / h, is <<h - y, h>>
PointerAt(e, c) ==
    LET x == e[1] - e[3]
        y == e[2] - e[4]
        w == c[1]
        h == c[2]
    IN  <<(<<x, h - y>>), (<<(<<x, w>>), (<<h - y, h>>)>>)>>

\* handleMouseMove of the setup closure g (185-191) on a mousemove event e
MouseMove(g, e) ==
    /\ pc = "idle"
    /\ g \in mouseListeners
    /\ mouseRef' = PointerAt(e, container)[1]
    /\ mouseNormalizedRef' = PointerAt(e, container)[2]
    /\ trace' = <<>>
    /\ UNCHANGED <<props, lifecycle, refVars, surfaces, protoValue, hostVars,
                   rafIdRef, timeRef, isPlayingRef, lastTimestampRef, playbackSpeedRef,
                   pending, batch, now, pc, cur, calls, hist>>

\* the setup closures with a touchmove listener on the container: the effect
\* subscribes to mousemove and to the window's resize (196-199), to nothing
\* else
TouchListeners == {}

\* a touchmove event with the touch points ts reaches the container of the
\* mounted component: the listeners subscribed to it run
TouchMove(ts) ==
    /\ pc = "idle"
    /\ lifecycle = "Active"
    /\ IF rendererRef \in TouchListeners /\ ts # <<>>
       THEN /\ mouseRef' = PointerAt(ts[1], container)[1]
            /\ mouseNormalizedRef' = PointerAt(ts[1], container)[2]
       ELSE UNCHANGED pointerVars
    /\ trace' = <<>>
    /\ UNCHANGED <<props, lifecycle, refVars, surfaces, protoValue, hostVars,
                   rafIdRef, timeRef, isPlayingRef, lastTimestampRef, playbackSpeedRef,
                   pending, batch, now, pc, cur, calls, hist>>

\* getContainerStyle (7-19) as the browser lays it out: the client boxes c
\* the container can have under the style of size mode m.  fixed: width and
\* height as given; viewport: 100vw x 100vh; aspect: width 100% capped by
\* maxWidth, the height following from aspect-ratio (maxHeight is not part
\* of the style); fill: 100% of whatever the parent has.  A container that
\* is not laid out (display: none up the tree) has a 0 x 0 box
StyledBox(m, c) ==
    \/ c = <<0, 0>>
    \/ m.mode = "fixed" /\ c = <<m.width, m.height>>
    \/ m.mode = "viewport" /\ c = display.inner
    \/ /\ m.mode = "aspect"
       /\ c[1] = c[2] * m.aspectRatio
       /\ m.maxWidth # 0 => c[1] <= m.maxWidth
    \/ m.mode = "fill"

\* the browser lays the container out anew: its client box changes
Layout(c) ==
    /\ pc = "idle"
    /\ c # container
    /\ StyledBox(props.size, c)
    /\ container' = c
    /\ trace' = <<>>
    /\ UNCHANGED <<props, lifecycle, refVars, surfaces, protoValue, display,
                   actualPixelRatio, pointerVars, rafIdRef, timeRef, isPlayingRef,
                   lastTimestampRef, playbackSpeedRef, pending, batch, now, pc, cur,
                   calls, hist>>

\* the window of the mounted component moves to another display or is
\* zoomed: window.devicePixelRatio changes
DisplayChange(d) ==
    /\ pc = "idle"
    /\ lifecycle = "Active"
    /\ d # display
    /\ display' = d
    /\ trace' = <<>>
    /\ UNCHANGED <<props, lifecycle, refVars, surfaces, protoValue, container,
                   actualPixelRatio, pointerVars, rafIdRef, timeRef, isPlayingRef,
                   lastTimestampRef, playbackSpeedRef, pending, batch, now, pc, cur,
                   calls, hist>>

\* ---------------------------------------------------------- specifications
\* the component's life and its animation loop
Lifecycle ==
    \/ Mount
    \/ \E p \in PropsSet : Rebuild(p)
    \/ Unmount
    \/ BeginFrame
    \/ TickBegin
    \/ TickEnd
    \/ Play
    \/ Pause

\* the loop under the controls that move the clock and its uniform
Next ==
    \/ Lifecycle
    \/ Reset
    \/ \E t \in SeekTimes : SetTime(t)
    \/ \E v \in UpdateValues : UpdateUniform("u_time", v)

Spec == Init /\ [][Next]_vars

\* the loop under every playback speed
NextSpeed ==
    \/ Lifecycle
    \/ \E s \in Speeds : SetPlaybackSpeed(s)

SpecSpeed == Init /\ [][NextSpeed]_vars

\* the uniform registry under every name a caller may pass
NextRegistry ==
    \/ Lifecycle
    \/ \E n \in UniformNames, v \in UpdateValues : UpdateUniform(n, v)

SpecRegistry == Init /\ [][NextRegistry]_vars

\* the loop under the input events of the container and the window
NextInput ==
    \/ Lifecycle
    \/ \E g \in 1..MaxGen : WindowResize(g)
    \/ \E g \in 1..MaxGen, e \in PointerEvents : MouseMove(g, e)

SpecInput == Init /\ [][NextInput]_vars

\* the component under configuration updates of its host
ConfigUniformSets == {[u_custom |-> 7], [u_custom |-> 8]}
ConfigProps ==
    [fragmentShader : Shaders,
     autoPlay : {TRUE},
     initialTime : InitialTimes,
     enableTimeUniform : {TRUE},
     enableResolutionUniform : {TRUE},
     enableMouseUniform : BOOLEAN,
     customUniforms : ConfigUniformSets,
     size : {FillSize},
     pixelRatio : {CappedPolicy}]

InitConfig == InitWith(ConfigProps, Displays, ContainerSizes)

NextConfig ==
    \/ Mount
    \/ MountFails
    \/ \E p \in ConfigProps, sameSize \in BOOLEAN : Render(p, sameSize)
    \/ Unmount
    \/ Capture
    \/ BeginFrame
    \/ TickBegin
    \/ TickEnd

SpecConfig == InitConfig /\ [][NextConfig]_vars

\* the component under every size mode and pixel-ratio policy, while the
\* container's box and the display change
AspectSize == SizeOf("aspect", 0, 0, 2, 400, 0)
FixedSize == SizeOf("fixed", 320, 240, 0, 0, 0)
ViewportSize == SizeOf("viewport", 0, 0, 0, 0, 0)
AspectTallSize == SizeOf("aspect", 0, 0, 2, 0, 100)
SizeModes == {FillSize, AspectSize, AspectTallSize, FixedSize, ViewportSize}
Policies == {PolicyOf("device", 0), CappedPolicy, PolicyOf("number", 3)}
SizeContainers ==
    {<<0, 0>>, <<0, 500>>, <<400, 200>>, <<1000, 200>>, <<1000, 500>>, <<320, 240>>,
     <<800, 600>>}
SizeDisplays == {DisplayOf(1, 800, 600), DisplayOf(3, 800, 600)}
SizeProps ==
    [fragmentShader : {"fragA"},
     autoPlay : {TRUE},
     initialTime : InitialTimes,
     enableTimeUniform : {TRUE},
     enableResolutionUniform : BOOLEAN,
     enableMouseUniform : {TRUE},
     customUniforms : CustomUniformSets,
     size : SizeModes,
     pixelRatio : Policies]

InitSize == InitWith(SizeProps, SizeDisplays, SizeContainers) /\ StyledBox(props.size, container)

NextSize ==
    \/ Mount
    \/ Unmount
    \/ \E c \in SizeContainers : Layout(c)
    \/ \E d \in SizeDisplays : DisplayChange(d)
    \/ \E g \in 1..MaxGen : WindowResize(g)
    \/ BeginFrame
    \/ TickBegin
    \/ TickEnd

SpecSize == InitSize /\ [][NextSize]_vars

\* the pointer tracking of the component under mouse and touch input, with
\* tracking enabled and disabled
PointerMoves == {<<1, 1, 0, 0>>, <<3, 2, 2, 1>>, <<7, 1, 0, 0>>}
TouchMoves == {<<>>, <<(<<3, 1, 0, 0>>)>>, <<(<<2, 2, 0, 0>>), (<<3, 1, 0, 0>>)>>}
PointerProps ==
    [fragmentShader : {"fragA"},
     autoPlay : BOOLEAN,
     initialTime : InitialTimes,
     enableTimeUniform : {TRUE},
     enableResolutionUniform : {TRUE},
     enableMouseUniform : BOOLEAN,
     customUniforms : CustomUniformSets,
     size : {FillSize},
     pixelRatio : {CappedPolicy}]

InitPointer == InitWith(PointerProps, Displays, ContainerSizes)

NextPointer ==
    \/ Mount
    \/ \E p \in PointerProps : Rebuild(p)
    \/ Unmount
    \/ BeginFrame
    \/ TickBegin
    \/ TickEnd
    \/ Play
    \/ Pause
    \/ \E g \in 1..MaxGen, e \in PointerMoves : MouseMove(g, e)
    \/ \E ts \in TouchMoves : TouchMove(ts)

SpecPointer == InitPointer /\ [][NextPointer]_vars

\* the uniform registry under every combination of the feature flags, with a
\* custom entry of its own name and one that takes the name of a built-in
RegistryUniformSets == {[u_custom |-> 7], [u_time |-> 7]}
RegistryProps ==
    [fragmentShader : {"fragA"},
     autoPlay : {TRUE},
     initialTime : InitialTimes,
     enableTimeUniform : BOOLEAN,
     enableResolutionUniform : BOOLEAN,
     enableMouseUniform : BOOLEAN,
     customUniforms : RegistryUniformSets,
     size : {FillSize},
     pixelRatio : {CappedPolicy}]

InitFlags == InitWith(RegistryProps, Displays, ContainerSizes)

NextFlags ==
    \/ Mount
    \/ \E p \in RegistryProps : Rebuild(p)
    \/ Unmount
    \/ BeginFrame
    \/ TickBegin
    \/ TickEnd
    \/ Reset
    \/ \E t \in SeekTimes : SetTime(t)
    \/ \E n \in UniformNames, v \in UpdateValues : UpdateUniform(n, v)
    \/ \E g \in 1..MaxGen : WindowResize(g)

SpecFlags == InitFlags /\ [][NextFlags]_vars

\* one activation of the component under all the playback controls
ControlProps ==
    [fragmentShader : {"fragA"},
     autoPlay : BOOLEAN,
     initialTime : InitialTimes,
     enableTimeUniform : BOOLEAN,
     enableResolutionUniform : {TRUE},
     enableMouseUniform : {TRUE},
     customUniforms : CustomUniformSets,
     size : {FillSize},
     pixelRatio : {CappedPolicy}]

InitControls == InitWith(ControlProps, Displays, ContainerSizes)

NextControls ==
    \/ Mount
    \/ Unmount
    \/ BeginFrame
    \/ TickBegin
    \/ TickEnd
    \/ Play
    \/ Pause
    \/ Reset
    \/ \E t \in SeekTimes : SetTime(t)
    \/ \E s \in Speeds : SetPlaybackSpeed(s)

SpecControls == InitControls /\ [][NextControls]_vars

\* ------------------------------------------------------------------ claims
\* a tick callback ran its body: clock advance, uniform write, onFrame
TickRuns == TickBegin /\ pc' = "inFrame"

\* C1: at every moment at most one scheduled tick is pending, whatever
\* sequence of activate, play, pause, tick, rebuild and deactivate came
\* before, calls made from inside onFrame included.
C1_AtMostOneTickPending == Cardinality(pending) <= 1

\* C2: once pause() has returned and until play() is called again, no tick
\* advances the clock or calls onFrame, and no tick renders or schedules
\* another tick.
C2_NoTickAfterPause == [][hist = "paused" => ~(TickRuns \/ TickEnd)]_vars

\* C3: after deactivation no tick of the loop is pending or running its
\* onFrame, and no pointer or resize listener is left.  (A tick that a
\* play() call made after the deactivation schedules is not counted: it
\* returns at once.)
C3_NothingFiresAfterDeactivate ==
    lifecycle = "Disposed" =>
        /\ \A c \in pending : c.kind # "setup"
        /\ pc # "inFrame"
        /\ mouseListeners = {}
        /\ resizeListeners = {}

\* C4: every render of a handler draws to the surface of the lifecycle that
\* is Active when it renders, never to one that was disposed.
C4_RenderTargetsLiveSurface ==
    \A i \in DOMAIN trace :
        trace[i].type = "render" =>
            /\ lifecycle = "Active"
            /\ rendererRef # Null
            /\ trace[i].a = rendererRef

\* C5: the first tick that runs after play() moved the controller from
\* Stopped to Playing has delta 0 and leaves the clock as it was.
C5_FirstTickAfterPlayHasZeroDelta ==
    [][(hist = "played" /\ TickRuns) => (cur'.delta = 0 /\ timeRef' = timeRef)]_vars

\* C5 witness: the loop that play() started runs its first tick in the second
\* frame, with delta 0.
C5_Witness ==
    /\ pc = "inFrame"
    /\ calls = 0
    /\ cur.kind = "play"
    /\ now = 2
    /\ cur.delta = 0
    /\ lastTimestampRef = 2

\* C6: a tick leaves the clock no smaller under speed 1, no larger under
\* speed -1, and unchanged under speed 0.
C6_ClockFollowsSpeed ==
    [][TickRuns =>
          /\ (playbackSpeedRef = 1 => timeRef' >= timeRef)
          /\ (playbackSpeedRef = -1 => timeRef' <= timeRef)
          /\ (playbackSpeedRef = 0 => timeRef' = timeRef)]_vars

\* C6 witness: a tick under speed -1 has moved the clock back.
C6_Witness ==
    /\ pc = "inFrame"
    /\ calls = 0
    /\ playbackSpeedRef = -1
    /\ cur.delta < 0
    /\ timeRef = props.initialTime + cur.delta

\* the events of a tick: its own steps run up to the onFrame call and resume
\* after it; what lies between was done by control calls of the callback
OnFrameAt(sq) ==
    CHOOSE i \in DOMAIN sq :
        sq[i].type = "onFrame" /\ \A j \in 1..(i - 1) : sq[j].type # "onFrame"
TickPart(sq) == SubSeq(sq, 1, OnFrameAt(sq))
CallbackPart(sq) == SubSeq(sq, OnFrameAt(sq) + 1, Len(sq))
TouchesTime(e) == e.type \in {"reset", "setTime", "updateUniform"}
Types(sq) == [i \in DOMAIN sq |-> sq[i].type]

\* C7 as stated: every tick does clock update, time-uniform write, onFrame,
\* one render, next request, in this order, and the clock passed to onFrame
\* is the value of the time uniform when the tick renders.
C7_TickOrderAsStated ==
    [][TickEnd =>
          LET steps == TickPart(trace) \o trace'
          IN  /\ Types(steps) = <<"clock", "uniform", "onFrame", "render", "raf">>
              /\ steps[3].a = steps[4].b]_vars

\* C7 amended: every tick does clock update, time-uniform write (when the
\* material has a time uniform), onFrame with the updated clock and its
\* delta, one render, next request, in this order; the value written is the
\* updated clock; and when the material has a time uniform and the callback
\* called none of setTime, reset and updateUniform of the time uniform, the
\* clock passed to onFrame is the value of the time uniform when the tick
\* renders.
C7_TickOrder ==
    [][TickEnd =>
          LET steps == TickPart(trace) \o trace'
              n == Len(steps)
              hasTime == HasOwn(Uniforms(cur.gen), "u_time")
              untouched == SelectSeq(CallbackPart(trace), TouchesTime) = <<>>
          IN  /\ Types(steps) = IF hasTime
                                THEN <<"clock", "uniform", "onFrame", "render", "raf">>
                                ELSE <<"clock", "onFrame", "render", "raf">>
              /\ steps[n - 2].a = steps[1].a
              /\ steps[n - 2].b = steps[1].b
              /\ untouched => steps[n - 2].a = timeRef
              /\ hasTime => steps[2].b = steps[1].a
              /\ (hasTime /\ untouched) => steps[n - 2].a = steps[n - 1].b]_vars

\* C7 witness: a tick that moved the clock has rendered with the time
\* uniform holding the moved clock.
C7_Witness ==
    /\ pc = "idle"
    /\ Len(trace) = 2
    /\ trace[1].type = "render"
    /\ trace[1].b = timeRef
    /\ timeRef = props.initialTime + 1
    /\ lastTimestampRef = 2

\* C8 as stated: right after setTime(t) on an Active lifecycle, getUniform of
\* the time uniform returns t.
C8_SeekRoundTripAsStated ==
    [][\A t \in SeekTimes :
          (SetTime(t) /\ lifecycle = "Active") => GetUniform("u_time")' = t]_vars

\* C8 amended: right after setTime(t) on an Active lifecycle whose registry
\* holds the time uniform, getUniform of the time uniform returns t, in the
\* Playing and in the Stopped state, with no tick in between.
C8_SeekRoundTrip ==
    [][\A t \in SeekTimes :
          (SetTime(t) /\ lifecycle = "Active" /\ GetUniform("u_time") # Undefined)
              => (GetUniform("u_time")' = t /\ timeRef' = t)]_vars

\* C8 witness: a Stopped, Active controller whose clock and time uniform
\* both hold the time sought.
C8_Witness ==
    /\ lifecycle = "Active"
    /\ pc = "idle"
    /\ ~isPlayingRef
    /\ \E t \in SeekTimes : timeRef = t /\ GetUniform("u_time") = t /\ t # props.initialTime

\* what a control called in this step let the outside see
EffectsOfCall == IF pc = "inFrame" THEN SubSeq(trace', Len(trace) + 2, Len(trace')) ELSE trace'

\* C9: reset() and setTime(t) on an Active lifecycle each render exactly
\* once, at once, the surface of that lifecycle with the new clock value.
C9_SeekAndResetRender ==
    [][(lifecycle = "Active" /\ (Reset \/ \E t \in SeekTimes : SetTime(t))) =>
          /\ Len(EffectsOfCall) = 1
          /\ EffectsOfCall[1].type = "render"
          /\ EffectsOfCall[1].a = rendererRef]_vars

\* C10: updateUniform of a name that getUniform reports absent changes no
\* uniform, and getUniform of the name still reports it absent.
C10_UnknownUniformWriteIsNoOp ==
    [][\A n \in UniformNames, v \in UpdateValues :
          (UpdateUniform(n, v) /\ GetUniform(n) = Undefined) =>
              /\ surfaces' = surfaces
              /\ GetUniform(n)' = Undefined]_vars

\* the step built a drawing surface
Recreated == \E i \in DOMAIN trace' : trace'[i].type = "create"

\* p differs from the current props in the pointer-enable flag and in nothing else
OnlyPointerFlag(p) ==
    /\ p.enableMouseUniform # props.enableMouseUniform
    /\ [p EXCEPT !.enableMouseUniform = props.enableMouseUniform] = props

\* C11: a configuration update that changes only the pointer-enable flag does
\* not tear down and recreate the drawing surface; one that changes the
\* fragment shader source does.
C11_StructuralChangeDetection ==
    [][\A p \in ConfigProps :
          Render(p, TRUE) =>
              /\ OnlyPointerFlag(p) => ~Recreated
              /\ p.fragmentShader # props.fragmentShader => Recreated]_vars

\* the uniforms of u other than the resolution uniform
OtherUniforms(u) == [n \in DOMAIN u \ {"u_resolution"} |-> u[n]]

\* C12: a resize handled while Active updates the render-target size and the
\* resolution uniform in place and calls onResize; the drawing surface and
\* the material keep their identity, and the clock, the playback speed, the
\* Playing/Stopped state and the pending tick are unchanged.
C12_ResizeInPlace ==
    [][\A g \in 1..MaxGen :
          (WindowResize(g) /\ lifecycle = "Active") =>
              LET sz == LogicalSize(props, container)
                  dev == <<sz[1] * actualPixelRatio, sz[2] * actualPixelRatio>>
              IN  /\ g = rendererRef
                  /\ lifecycle' = "Active"
                  /\ ~Recreated
                  /\ rendererRef' = rendererRef
                  /\ materialRef' = materialRef
                  /\ domChildren' = domChildren
                  /\ surfaces'[g].size = sz
                  /\ sizeRef' = dev
                  /\ DOMAIN Uniforms(g)' = DOMAIN Uniforms(g)
                  /\ HasOwn(Uniforms(g), "u_resolution")
                        => Uniforms(g)'["u_resolution"] = dev
                  /\ OtherUniforms(Uniforms(g)') = OtherUniforms(Uniforms(g))
                  /\ trace' = <<Ev("onResize", sz[1], sz[2])>>
                  /\ timeRef' = timeRef
                  /\ playbackSpeedRef' = playbackSpeedRef
                  /\ isPlayingRef' = isPlayingRef
                  /\ pending' = pending
                  /\ rafIdRef' = rafIdRef]_vars

\* C12 witness: a resize was handled while Playing, after a tick, with the
\* next tick pending: the surface has the size of the container's new box,
\* which is not the size it was created with.
C12_Witness ==
    /\ lifecycle = "Active"
    /\ isPlayingRef
    /\ pending # {}
    /\ lastTimestampRef = 1
    /\ props.size = FillSize
    /\ container = <<1000, 200>>
    /\ trace = <<Ev("onResize", 1000, 200)>>
    /\ surfaces[rendererRef].size = <<1000, 200>>
    /\ HasOwn(Uniforms(rendererRef), "u_resolution")
    /\ actualPixelRatio = 3
    /\ Uniforms(rendererRef)["u_resolution"] = <<3000, 600>>

\* p differs from the current props in the custom uniforms' values and in
\* nothing else
OnlyCustomUniforms(p) ==
    /\ p.customUniforms # props.customUniforms
    /\ DOMAIN p.customUniforms = DOMAIN props.customUniforms
    /\ [p EXCEPT !.customUniforms = props.customUniforms] = props

\* C13: a change of a custom uniform's value in the configuration while
\* Active does not tear down or recreate the drawing surface, and every
\* render of the loop after it draws with the live uniform holding the
\* configured value.
C13_CustomUniformAppliedInPlace ==
    [][/\ \A p \in ConfigProps :
              (Render(p, TRUE) /\ OnlyCustomUniforms(p)) => ~Recreated
       /\ (TickEnd /\ cur.gen = materialRef) =>
              \A n \in DOMAIN props.customUniforms :
                  Uniforms(materialRef)[n] = props.customUniforms[n]]_vars

\* the step reported a failure through onError / let an exception escape
Reported == \E i \in DOMAIN trace' : trace'[i].type = "onError"
Escaped == \E i \in DOMAIN trace' : trace'[i].type = "throw"

\* C14: when the rendering backend cannot be acquired during activation, the
\* failure is reported through onError and does not escape to the host; the
\* lifecycle stays Uninitialized, nothing is drawn, no output element is
\* attached and no tick is scheduled.
C14_SurfaceFailureReported ==
    [][MountFails =>
          /\ Reported
          /\ ~Escaped
          /\ lifecycle' = "Uninitialized"
          /\ rendererRef' = Null
          /\ domChildren' = {}
          /\ pending' = pending
          /\ \A i \in DOMAIN trace' : trace'[i].type \notin {"render", "raf"}]_vars

\* C15: when the supplied fragment source does not compile, the failure is
\* reported through onError and the material is built with the fallback
\* shader, so the lifecycle becomes Active and renders the fallback image.
C15_ShaderFailureFallsBack ==
    [][((Mount \/ \E p \in ConfigProps : Render(p, TRUE))
            /\ Recreated /\ props'.fragmentShader \in BrokenShaders) =>
          /\ Reported
          /\ ~Escaped
          /\ lifecycle' = "Active"
          /\ MaterialShader(props') = FALLBACK_FRAGMENT_SHADER]_vars

\* the state a control call may not touch
ControlState ==
    <<props, lifecycle, refVars, surfaces, protoValue, hostVars, pointerVars,
      rafIdRef, timeRef, isPlayingRef, lastTimestampRef, playbackSpeedRef, pending,
      batch, now, pc, cur, hist>>

\* C16: captureFrame never fails and changes no state; it returns the encoded
\* frame of the drawing surface when the lifecycle is Active and an empty
\* result before activation and after deactivation.
C16_CaptureNeverFails ==
    [][Capture =>
          LET result == trace'[Len(trace')]
          IN  /\ result.type = "capture"
              /\ ~Escaped
              /\ <<result.a, result.b>> =
                    IF lifecycle = "Active" THEN DataUrl(rendererRef) ELSE EmptyString
              /\ lifecycle = "Active" => result.a \in domChildren
              /\ ControlState' = ControlState]_vars

\* C16 witness: captureFrame returned an empty result after deactivation, on
\* a component that had rendered frames before.
C16_Witness ==
    /\ lifecycle = "Disposed"
    /\ lastTimestampRef = 1
    /\ trace = <<Ev("capture", EmptyString[1], EmptyString[2])>>

\* running the cleanup of the closure of surface g once more, in the state
\* the step leads to, changes nothing there
SecondCleanupChangesNothing(g) ==
    /\ CleanupPending' = pending'
    /\ CleanupBatch' = batch'
    /\ CleanupMouse(props, g)' = mouseListeners'
    /\ CleanupResize(g)' = resizeListeners'
    /\ CleanupDom(g)' = domChildren'
    /\ rendererRef' = Null
    /\ materialRef' = Null

\* C17: deactivating twice in a row leaves the state the first deactivation
\* left, and in that state no tick is pending, no listener is left, the
\* output element is detached and the surface references are cleared.
C17_DeactivateIdempotent ==
    [][Unmount =>
          \E g \in 1..MaxGen :
              /\ g = rendererRef
              /\ SecondCleanupChangesNothing(g)
              /\ pending' = {}
              /\ mouseListeners' = {}
              /\ resizeListeners' = {}
              /\ domChildren' = {}]_vars

\* the step computed the size of the drawing surface: the setup's call of
\* updateSize or a handled resize
SizeComputed == Mount \/ \E g \in 1..MaxGen : WindowResize(g)

\* C18: in aspect mode the computed logical size, which is the size given to
\* the drawing surface, has width = height * ratio, fits inside the
\* container in both axes and does not exceed maxWidth or maxHeight where
\* given.  (The container is the element the component measures; under the
\* style of aspect{ratio 2, maxWidth 400} its box in a 1000 x 200 region is
\* 400 x 200 already.)
C18_AspectSize ==
    [][(SizeComputed /\ props.size.mode = "aspect") =>
          LET sz == surfaces'[rendererRef'].size
              m == props.size
          IN  /\ sz[1] = sz[2] * m.aspectRatio
              /\ (container[1] # 0 /\ container[2] # 0) =>
                    (sz[1] <= container[1] /\ sz[2] <= container[2])
              /\ m.maxWidth # 0 => sz[1] <= m.maxWidth
              /\ m.maxHeight # 0 => sz[2] <= m.maxHeight]_vars

\* C19 as stated: in fill mode the logical size is the container's box when
\* both axes are non-zero and the default 300 x 150 when either axis is
\* zero; it never has zero area.
C19_FillSizeAsStated ==
    [][(SizeComputed /\ props.size.mode = "fill") =>
          LET sz == surfaces'[rendererRef'].size
          IN  /\ sz = IF container[1] # 0 /\ container[2] # 0 THEN container
                      ELSE <<300, 150>>
              /\ sz[1] * sz[2] # 0]_vars

\* C19 amended: in fill mode the logical size is the container's box when
\* both axes are non-zero; an axis the container reports as zero falls back
\* to its default, 300 for the width and 150 for the height, each axis on
\* its own (0 x 0 gives 300 x 150, 0 x 500 gives 300 x 500); it never has
\* zero area.
C19_FillSize ==
    [][(SizeComputed /\ props.size.mode = "fill") =>
          LET sz == surfaces'[rendererRef'].size
          IN  /\ sz[1] = IF container[1] # 0 THEN container[1] ELSE 300
              /\ sz[2] = IF container[2] # 0 THEN container[2] ELSE 150
              /\ (container[1] # 0 /\ container[2] # 0) => sz = container
              /\ container = <<0, 0>> => sz = <<300, 150>>
              /\ sz[1] * sz[2] # 0
              /\ trace'[Len(trace')  - (IF Recreated THEN 1 ELSE 0)]
                    = Ev("onResize", sz[1], sz[2])]_vars

\* C19 witness: in fill mode a container 0 wide and 500 high was measured
\* and the surface is 300 x 500.
C19_Witness ==
    /\ lifecycle = "Active"
    /\ props.size = FillSize
    /\ container = <<0, 500>>
    /\ surfaces[rendererRef].size = <<300, 500>>
    /\ trace = <<Ev("onResize", 300, 500)>>

\* the pixel-density factor of a policy on the display as it is now
FactorNow ==
    IF props.pixelRatio.kind = "number" THEN props.pixelRatio.value
    ELSE IF props.pixelRatio.kind = "device" THEN display.dpr
    ELSE IF display.dpr <= 2 THEN display.dpr ELSE 2

\* C20: the pixel-density factor is the given number for an explicit policy,
\* the display's device-pixel ratio for "device" and min(ratio, 2) for
\* "capped"; after every size computation the device size, and the
\* resolution uniform when there is one, are the logical width and height
\* each multiplied by that factor.
C20_DeviceSize ==
    [][SizeComputed =>
          LET g == rendererRef'
              sz == surfaces'[g].size
              dev == <<sz[1] * FactorNow, sz[2] * FactorNow>>
          IN  /\ sizeRef' = dev
              /\ props.enableResolutionUniform =>
                    surfaces'[g].uniforms["u_resolution"] = dev]_vars

\* the client box c holds the point of event e
InBounds(e, c) ==
    /\ 0 <= e[1] - e[3] /\ e[1] - e[3] <= c[1]
    /\ 0 <= e[2] - e[4] /\ e[2] - e[4] <= c[2]
\* the fraction q = <<numerator, denominator>> lies in [0, 1]
InUnit(q) == q[2] > 0 /\ 0 <= q[1] /\ q[1] <= q[2]
\* the fractions q and r are the same number
SameFraction(q, r) == q[2] # 0 /\ r[2] # 0 /\ q[1] * r[2] = r[1] * q[2]

\* the pointer state after the step is the one event e gives
PointerIs(e) ==
    LET rawX == e[1] - e[3]
        rawY == container[2] - (e[2] - e[4])
    IN  /\ mouseRef' = <<rawX, rawY>>
        /\ SameFraction(mouseNormalizedRef'[1], <<rawX, container[1]>>)
        /\ SameFraction(mouseNormalizedRef'[2], <<rawY, container[2]>>)
        /\ InBounds(e, container) =>
              /\ InUnit(mouseNormalizedRef'[1])
              /\ InUnit(mouseNormalizedRef'[2])
              /\ (e[2] - e[4] = container[2]) => mouseNormalizedRef'[2][1] = 0

\* C21: while pointer tracking is enabled, every mouse-move event and every
\* touch-move event (its first touch point; one without touch points changes
\* nothing) sets raw = (eventX - left, height - (eventY - top)) and
\* normalized = (raw.x / width, raw.y / height), inside [0,1] with y = 0 at
\* the bottom for an event inside the bounds; while tracking is disabled no
\* listener is subscribed and the pointer state keeps its value.
C21_PointerState ==
    [][/\ \A g \in 1..MaxGen, e \in PointerMoves : MouseMove(g, e) => PointerIs(e)
       /\ \A ts \in TouchMoves :
             (TouchMove(ts) /\ props.enableMouseUniform) =>
                 IF ts = <<>> THEN UNCHANGED pointerVars ELSE PointerIs(ts[1])
       /\ (lifecycle' = "Active" /\ ~props'.enableMouseUniform) => mouseListeners' = {}
       /\ (lifecycle = "Active" /\ ~props.enableMouseUniform) => UNCHANGED pointerVars]_vars

\* the built-in uniforms the feature flags of props p enable
BuiltinNames(p) ==
    (IF p.enableTimeUniform THEN {"u_time"} ELSE {})
    \cup (IF p.enableResolutionUniform THEN {"u_resolution"} ELSE {})
    \cup (IF p.enableMouseUniform THEN {"u_mouse", "u_mouseNormalized"} ELSE {})

\* the names the registry holds: the entries of the material's uniforms, and
\* the names the registry reports a value for when asked through getUniform
OwnNames == IF materialRef = Null THEN {} ELSE DOMAIN Uniforms(materialRef)
ReportedNames ==
    {n \in UniformNames \cup BuiltinNames(props) :
        /\ materialRef # Null
        /\ \/ HasOwn(Uniforms(materialRef), n)
           \/ n \in ProtoNames /\ protoValue[n] # Undefined}

\* a call or handler that works on the registry without rebuilding it
RegistryStep ==
    \/ \E n \in UniformNames, v \in UpdateValues : UpdateUniform(n, v)
    \/ \E t \in SeekTimes : SetTime(t)
    \/ Reset
    \/ TickBegin
    \/ TickEnd
    \/ \E g \in 1..MaxGen : WindowResize(g)

\* C22: in every Active state each built-in uniform whose flag is enabled is
\* in the registry, and no updateUniform, setTime, reset, tick or resize adds
\* a name to the registry or removes one from it.
C22_RegistryNamesFixed ==
    [][/\ lifecycle' = "Active" =>
              /\ BuiltinNames(props') \subseteq OwnNames'
              /\ BuiltinNames(props') \subseteq ReportedNames'
       /\ (RegistryStep /\ lifecycle = "Active") =>
              /\ OwnNames' = OwnNames
              /\ ReportedNames' = ReportedNames]_vars

\* what a control may not touch when it leaves the loop alone: the
\* Playing/Stopped state, the pending callbacks, the handle of the last
\* request
LoopState == <<isPlayingRef, pending, batch, rafIdRef>>

\* the step requested an animation frame
Requested == \E i \in DOMAIN EffectsOfCall : EffectsOfCall[i].type = "raf"

\* C23: setPlaybackSpeed(s) changes the multiplier and nothing else: the
\* clock, the time uniform, the last-tick reference, the Playing/Stopped
\* state and the pending tick stay as they were; setTime(t) and reset() never
\* change the Playing/Stopped state and neither schedule nor cancel a tick.
C23_ControlsLeaveLoopAlone ==
    [][/\ \A s \in Speeds :
             SetPlaybackSpeed(s) =>
                 /\ playbackSpeedRef' = s
                 /\ timeRef' = timeRef
                 /\ surfaces' = surfaces
                 /\ lastTimestampRef' = lastTimestampRef
                 /\ LoopState' = LoopState
                 /\ ~Requested
       /\ (Reset \/ \E t \in SeekTimes : SetTime(t)) =>
             /\ LoopState' = LoopState
             /\ ~Requested]_vars

\* C23 witness: the speed was set to -1 while Playing, after the tick of the
\* second frame had moved the clock forward: the clock, the time uniform and
\* the last-tick reference are those of that tick and its successor is
\* pending.
C23_Witness ==
    /\ lifecycle = "Active"
    /\ pc = "idle"
    /\ playbackSpeedRef = -1
    /\ isPlayingRef
    /\ Cardinality(pending) = 1
    /\ lastTimestampRef = 2
    /\ timeRef = props.initialTime + 1
    /\ TimeUniformOf(materialRef) = timeRef

\* C24: reset() sets the clock, and the time uniform when there is one, to
\* the configured initial time and clears the last-tick reference; a tick
\* that finds the reference cleared computes delta 0 and leaves the clock
\* where it was, so the first tick after reset() ends with the clock at the
\* initial time.
C24_ResetThenZeroDelta ==
    [][/\ Reset =>
             /\ timeRef' = props.initialTime
             /\ lastTimestampRef' = NoTimestamp
             /\ (materialRef # Null /\ HasOwn(Uniforms(materialRef), "u_time"))
                    => TimeUniformOf(materialRef)' = props.initialTime
       /\ (TickRuns /\ lastTimestampRef = NoTimestamp) =>
             /\ cur'.delta = 0
             /\ timeRef' = timeRef
             /\ timeRef = props.initialTime => cur'.time = props.initialTime]_vars

\* C24 witness: while Playing, the tick of the second frame had moved the
\* clock by one frame and its onFrame called reset(): the clock and the time
\* uniform are back at the initial time and the last-tick reference is clear.
C24_Witness ==
    /\ lifecycle = "Active"
    /\ pc = "inFrame"
    /\ isPlayingRef
    /\ now = 2
    /\ cur.delta = 1
    /\ cur.time = props.initialTime + 1
    /\ trace[Len(trace)] = Ev("reset", 0, 0)
    /\ timeRef = props.initialTime
    /\ TimeUniformOf(materialRef) = props.initialTime
    /\ lastTimestampRef = NoTimestamp

\* the step ran the setup effect
Activated == Mount \/ \E p \in RegistryProps : Rebuild(p)

\* the callback of the running tick wrote the time uniform through
\* updateUniform
WroteTimeUniform == \E i \in DOMAIN trace : trace[i].type = "updateUniform"

\* C25: a custom entry that has the name of the time uniform replaces the
\* built-in's initial value when the registry is built, whether or not the
\* time flag is on; every tick then writes the clock over it, so that the
\* entry holds the clock value after the tick, whatever the caller supplied.
C25_CustomTimeEntryOverwritten ==
    [][/\ (Activated /\ HasOwn(props'.customUniforms, "u_time")) =>
             /\ HasOwn(surfaces'[materialRef'].uniforms, "u_time")
             /\ surfaces'[materialRef'].uniforms["u_time"] = props'.customUniforms["u_time"]
       /\ (TickRuns /\ HasOwn(props.customUniforms, "u_time")) =>
             surfaces'[cur'.gen].uniforms["u_time"] = timeRef'
       /\ (TickEnd /\ HasOwn(props.customUniforms, "u_time") /\ ~WroteTimeUniform) =>
             TimeUniformOf(cur.gen) = timeRef]_vars

\* C25 witness: with the time flag off and a custom entry u_time = 7, the
\* tick of the second frame has run: the entry holds the clock, which is not
\* the value supplied.
C25_Witness ==
    /\ lifecycle = "Active"
    /\ pc = "inFrame"
    /\ calls = 0
    /\ now = 2
    /\ ~props.enableTimeUniform
    /\ props.customUniforms = [u_time |-> 7]
    /\ timeRef = props.initialTime + 1
    /\ TimeUniformOf(materialRef) = timeRef
    /\ timeRef # 7

\* C26: while pointer tracking is enabled every tick renders with the two
\* pointer uniforms holding the latest raw and normalized pointer position,
\* whether the loop was started by the activation or by play().
C26_TickCopiesPointer ==
    [][(TickEnd /\ HasOwn(Uniforms(cur.gen), "u_mouse")) =>
          /\ Uniforms(cur.gen)["u_mouse"] = mouseRef
          /\ Uniforms(cur.gen)["u_mouseNormalized"] = mouseNormalizedRef]_vars

\* C27: in every state where the lifecycle is Active, the controller is
\* Playing and no tick is running, exactly one tick is pending, whatever
\* plays, pauses and rebuilds (with autoPlay on or off) came before; and
\* play() on a Stopped controller of an Active lifecycle leaves it Playing
\* with a tick pending.
C27_PlaybackNeverStuck ==
    [][/\ (lifecycle' = "Active" /\ isPlayingRef' /\ pc' = "idle") =>
             Cardinality(pending') = 1
       /\ (Play /\ lifecycle = "Active" /\ ~isPlayingRef) =>
             (isPlayingRef' /\ pending' # {})]_vars

\* C28: every frame drawn on an Active lifecycle whose material has the time
\* uniform is drawn with the time uniform equal to the clock: the frame the
\* activation draws when autoPlay is off, the first frame after a rebuild,
\* and the frames of the ticks.
C28_FrameDrawnAtClock ==
    \A i \in DOMAIN trace :
        (/\ trace[i].type = "render"
         /\ lifecycle = "Active"
         /\ trace[i].a = rendererRef
         /\ props.enableTimeUniform) => trace[i].b = timeRef

\* C29: a rebuild keeps the playback state of the caller: a controller that
\* pause() stopped is Stopped after it, with no tick pending, and one that
\* was Playing is Playing; and a loop that runs after the rebuild of a
\* paused controller begins with the last-tick reference clear, so that its
\* first tick adds none of the time that passed while it was Stopped.
C29_RebuildKeepsPlayback ==
    [][\A p \in PropsSet :
          Rebuild(p) =>
              /\ hist = "paused" => (~isPlayingRef' /\ pending' = {})
              /\ isPlayingRef => isPlayingRef'
              /\ (hist = "paused" /\ isPlayingRef') => lastTimestampRef' = NoTimestamp]_vars

====
